---- MODULE Spec2Model ----
(***************************************************************************)
(* Model of prisma-extension-pack: the externally controlled transaction  *)
(* handle ($begin), the retry adapter (RetryTransactions), the random      *)
(* sampling helpers, paginate and the not-found-tolerant mutations.        *)
(*                                                                         *)
(* Each operation is a state machine with its own specification; the      *)
(* variables of the other machines stay at their idle values:              *)
(*   Spec        $begin / $commit / $rollback over prisma.$transaction     *)
(*   SpecRetry   RetryTransactions.$transaction over backOff               *)
(*   SpecSample  findManyRandom over count / findFirst                     *)
(*   SpecRand    findRandom over count / findFirst                         *)
(*   SpecPage    paginate over findMany / count                            *)
(*   SpecMut     updateIgnoreOnNotFound / deleteIgnoreOnNotFound           *)
(***************************************************************************)
EXTENDS Integers, Sequences, FiniteSets, TLC

(***************************************************************************)
(* Bounds                                                                  *)
(***************************************************************************)
\* values a caller may write through the handle
MaxWrites == 2
\* largest numOfAttempts option given to backOff
MaxAttempts == 3
\* $commit / $rollback calls made on one handle
MaxCalls == 2

Min(a, b) == IF a < b THEN a ELSE b
Max(a, b) == IF a > b THEN a ELSE b

(***************************************************************************)
(* Promises: a state and a settled value (or rejection reason)             *)
(***************************************************************************)
NoPromise == [st |-> "none", val |-> "none"]
Pending == [st |-> "pending", val |-> "none"]
Resolved(v) == [st |-> "resolved", val |-> v]
Rejected(e) == [st |-> "rejected", val |-> e]
Settled(p) == p.st \in {"resolved", "rejected"}

\* _res(v) / _rej(e): only a pending promise takes the outcome
SettleOverwrite(p, outcome) == outcome
Settle(p, outcome) == IF p.st = "pending" THEN outcome ELSE p

\* const ROLLBACK = { [Symbol.for("prisma.client.extension.rollback")]: true }
ROLLBACK == "ROLLBACK"

\* failures the underlying client can raise: write conflict / deadlock,
\* unique constraint, record not found, connectivity, an error without a code
ErrorCodes == {"P2034", "P2002", "P2025", "P1001", "nocode"}

(***************************************************************************)
(* RetryTransactions: the classifier and the option merge                  *)
(***************************************************************************)
\* retry: (e) => e?.code === "P2034"
DefaultRetryAny(e) == TRUE
DefaultRetry(e) == e = "P2034"

\* { retry: <default>, ...options }: a retry given in options wins
MergedRetryDefaultWins(options) == "default"
MergedRetry(options) ==
    IF options.retry # "absent" THEN options.retry ELSE "default"

\* the merged classifier applied to a failure
ShouldRetry(options, e) ==
    CASE MergedRetry(options) = "default" -> DefaultRetry(e)
      [] MergedRetry(options) = "always" -> TRUE
      [] MergedRetry(options) = "never" -> FALSE

RetryOptions ==
    [retry : {"absent", "always", "never"}, numOfAttempts : 1..MaxAttempts]

\* { retry, ...options }: backOff gets the caller's numOfAttempts
MergedAttemptsDropped(options) == MaxAttempts
MergedAttempts(options) == options.numOfAttempts

\* backOff after a failed attempt: attemptNumber is already incremented
BackOffRetries(options, e, attemptNumber) ==
    ShouldRetry(options, e) /\ attemptNumber < MergedAttempts(options)

VARIABLES
    client,      \* the extended client $begin runs on
    pc,          \* position of the $begin call
    beginError,  \* what $begin threw
    txClient,    \* promise for the inner transaction client
    txPromise,   \* promise carrying the caller's decision
    tx,          \* promise returned by prisma.$transaction(...)
    inner,       \* the running attempt of the underlying $transaction
    attemptNumber, \* attempts backOff has seen fail
    txs,         \* underlying transactions opened so far
    cbCalls,     \* invocations of the callback handed to $transaction
    db,          \* writes visible in the database
    calls,       \* $commit / $rollback calls made on the handle
    \* RetryTransactions.$transaction
    rOptions,    \* the options given to RetryTransactions
    rScript,     \* outcome of each execution of the wrapped $transaction
    rPc,         \* position of the backOff loop
    rExec,       \* executions of the wrapped $transaction so far
    rFailed,     \* backOff's attemptNumber
    rLast,       \* outcome of the last execution
    rResult,     \* the promise the wrapper returned
    \* findManyRandom
    store,       \* rows of the model's table
    mutations,   \* concurrent inserts and deletes during the call
    sNum,        \* the num argument
    sWhere,      \* args.where
    sPc,         \* position of the call
    numRows,     \* remaining population counter
    rows,        \* rows collected
    rowIds,      \* identifiers collected
    sI,          \* loop counter i
    sSkip,       \* skip passed to the last findFirst
    sLogged,     \* console.error was called
    \* findRandom
    fRow,        \* what findRandom returned
    \* paginate
    pVariant,    \* which copy of paginate runs
    pArgs,       \* the args of the call
    pPc,         \* position of the call
    pFindMany,   \* the arguments handed to findMany
    pCount,      \* the arguments handed to count
    pData,       \* what findMany answered
    pTotal,      \* what count answered
    pResult,     \* what paginate returned
    \* updateIgnoreOnNotFound / deleteIgnoreOnNotFound
    mOp,         \* which wrapper is called
    mArgs,       \* the target identifier and the new field value
    mFault,      \* a failure the store raises whatever the target
    mStore0,     \* the table before the call
    mPc,         \* position of the call
    mCalls,      \* invocations of the underlying mutation
    mAnswer,     \* what the underlying mutation answered
    mResult      \* what the wrapper returned

txVars == <<client, pc, beginError, txClient, txPromise, tx, inner,
            attemptNumber, txs, cbCalls, db, calls>>

retryVars == <<rOptions, rScript, rPc, rExec, rFailed, rLast, rResult>>

sampleVars == <<store, mutations, sNum, sWhere, sPc, numRows, rows, rowIds,
                sI, sSkip, sLogged>>

randVars == <<fRow>>

pageVars == <<pVariant, pArgs, pPc, pFindMany, pCount, pData, pTotal,
              pResult>>

mutVars == <<mOp, mArgs, mFault, mStore0, mPc, mCalls, mAnswer, mResult>>

vars == <<txVars, retryVars, sampleVars, randVars, pageVars, mutVars>>

Clients ==
    [supported : BOOLEAN, wrapped : BOOLEAN, options : RetryOptions]

(***************************************************************************)
(* $begin                                                                  *)
(***************************************************************************)
\* throw new Error("Transactions are not supported by this client")
UnsupportedMessage == "Transactions are not supported by this client"

\* "$transaction" in prisma && typeof prisma.$transaction === "function"
SupportsTransactionsAlways(c) == TRUE
SupportsTransactions(c) == c.supported

\* (e) => { if (e === ROLLBACK) return; throw e; }
CatchHandlerRethrow(e) == Rejected(e)
CatchHandler(e) == IF e = ROLLBACK THEN Resolved("undefined") ELSE Rejected(e)

\* the future the callback returns: txPromise.catch(handler)
CallbackFutureDetached(p) == Resolved("undefined")
CallbackFuture(p) ==
    CASE p.st = "resolved" -> Resolved(p.val)
      [] p.st = "rejected" -> CatchHandler(p.val)
      [] OTHER -> Pending

TxInit ==
    /\ client \in Clients
    /\ pc = "init"
    /\ beginError = "none"
    /\ txClient = [st |-> "none", val |-> 0]
    /\ txPromise = NoPromise
    /\ tx = NoPromise
    /\ inner = NoPromise
    /\ attemptNumber = 0
    /\ txs = << >>
    /\ cbCalls = 0
    /\ db = {}
    /\ calls = << >>

\* $begin up to its first await (or its throw)
Begin ==
    /\ pc = "init"
    /\ txClient' = [st |-> "pending", val |-> 0]
    /\ txPromise' = Pending
    /\ IF SupportsTransactions(client)
       THEN /\ tx' = Pending
            /\ inner' = [st |-> "starting", val |-> "none"]
            /\ pc' = "awaiting"
            /\ UNCHANGED beginError
       ELSE /\ pc' = "threw"
            /\ beginError' = UnsupportedMessage
            /\ UNCHANGED <<tx, inner>>
    /\ UNCHANGED <<client, attemptNumber, txs, cbCalls, db, calls>>
    /\ UNCHANGED <<retryVars, sampleVars, randVars, pageVars, mutVars>>

\* the underlying primitive opens a transaction and invokes the callback:
\* setTxClient(txClient); return txPromise.catch(...)
StartTransaction ==
    /\ inner.st = "starting"
    /\ txs' = Append(txs, [st |-> "open", writes |-> {}, cb |-> Pending])
    /\ cbCalls' = cbCalls + 1
    /\ txClient' = IF txClient.st = "pending"
                   THEN [st |-> "resolved", val |-> Len(txs) + 1]
                   ELSE txClient
    /\ inner' = [st |-> "running", val |-> "none"]
    /\ UNCHANGED <<client, pc, beginError, txPromise, tx, attemptNumber, db, calls>>
    /\ UNCHANGED <<retryVars, sampleVars, randVars, pageVars, mutVars>>

\* the underlying primitive fails before it invokes the callback
StartFails(e) ==
    /\ inner.st = "starting"
    /\ inner' = Rejected(e)
    /\ UNCHANGED <<client, pc, beginError, txClient, txPromise, tx,
                   attemptNumber, txs, cbCalls, db, calls>>
    /\ UNCHANGED <<retryVars, sampleVars, randVars, pageVars, mutVars>>

\* return new Proxy(await txClient, ...)
BeginReturns ==
    /\ pc = "awaiting"
    /\ txClient.st = "resolved"
    /\ pc' = "returned"
    /\ UNCHANGED <<client, beginError, txClient, txPromise, tx, inner,
                   attemptNumber, txs, cbCalls, db, calls>>
    /\ UNCHANGED <<retryVars, sampleVars, randVars, pageVars, mutVars>>

\* target[prop]: a write forwarded to the inner transaction client
Write(w) ==
    /\ pc = "returned"
    /\ txs[txClient.val].st = "open"
    /\ txs' = [txs EXCEPT ![txClient.val].writes = @ \cup {w}]
    /\ UNCHANGED <<client, pc, beginError, txClient, txPromise, tx, inner,
                   attemptNumber, cbCalls, db, calls>>
    /\ UNCHANGED <<retryVars, sampleVars, randVars, pageVars, mutVars>>

\* $commit: () => { commit(); return tx; }
Commit ==
    /\ pc = "returned"
    /\ Len(calls) < MaxCalls
    /\ txPromise' = Settle(txPromise, Resolved("undefined"))
    /\ calls' = Append(calls, [op |-> "commit", returned |-> "tx"])
    /\ UNCHANGED <<client, pc, beginError, txClient, tx, inner,
                   attemptNumber, txs, cbCalls, db>>
    /\ UNCHANGED <<retryVars, sampleVars, randVars, pageVars, mutVars>>

\* $rollback: () => { rollback(); return tx; }
Rollback ==
    /\ pc = "returned"
    /\ Len(calls) < MaxCalls
    /\ txPromise' = Settle(txPromise, Rejected(ROLLBACK))
    /\ calls' = Append(calls, [op |-> "rollback", returned |-> "tx"])
    /\ UNCHANGED <<client, pc, beginError, txClient, tx, inner,
                   attemptNumber, txs, cbCalls, db>>
    /\ UNCHANGED <<retryVars, sampleVars, randVars, pageVars, mutVars>>

\* the future returned by the i-th callback invocation settles
CallbackSettles(i) ==
    /\ txs[i].cb.st = "pending"
    /\ Settled(CallbackFuture(txPromise))
    /\ txs' = [txs EXCEPT ![i].cb = CallbackFuture(txPromise)]
    /\ UNCHANGED <<client, pc, beginError, txClient, txPromise, tx, inner,
                   attemptNumber, cbCalls, db, calls>>
    /\ UNCHANGED <<retryVars, sampleVars, randVars, pageVars, mutVars>>

\* runTransaction: the scope commits when the callback's future resolves
\* (unless the store refuses the commit with a write conflict) and rolls
\* back, failing with the same reason, when that future fails
ScopeOutcome(cb, conflict) ==
    CASE cb.st = "rejected" -> [st |-> "rolledback", result |-> Rejected(cb.val)]
      [] cb.st = "resolved" /\ conflict ->
            [st |-> "rolledback", result |-> Rejected("P2034")]
      [] OTHER -> [st |-> "committed", result |-> Resolved(cb.val)]

\* the underlying primitive finishes the transaction it has open
TransactionFinishes(conflict) ==
    /\ inner.st = "running"
    /\ Settled(txs[Len(txs)].cb)
    /\ LET out == ScopeOutcome(txs[Len(txs)].cb, conflict) IN
        /\ txs' = [txs EXCEPT ![Len(txs)].st = out.st]
        /\ db' = IF out.st = "committed" THEN db \cup txs[Len(txs)].writes
                 ELSE db
        /\ inner' = out.result
    /\ UNCHANGED <<client, pc, beginError, txClient, txPromise, tx,
                   attemptNumber, cbCalls, calls>>
    /\ UNCHANGED <<retryVars, sampleVars, randVars, pageVars, mutVars>>

\* the attempt resolved: tx resolves with its value
AttemptResolves ==
    /\ tx.st = "pending"
    /\ inner.st = "resolved"
    /\ tx' = inner
    /\ UNCHANGED <<client, pc, beginError, txClient, txPromise, inner,
                   attemptNumber, txs, cbCalls, db, calls>>
    /\ UNCHANGED <<retryVars, sampleVars, randVars, pageVars, mutVars>>

\* the attempt failed: a wrapped $transaction asks backOff whether to call
\* prisma.$transaction again with the same arguments; otherwise tx fails
AttemptFails ==
    /\ tx.st = "pending"
    /\ inner.st = "rejected"
    /\ attemptNumber' = attemptNumber + 1
    /\ IF client.wrapped
          /\ BackOffRetries(client.options, inner.val, attemptNumber + 1)
       THEN /\ inner' = [st |-> "starting", val |-> "none"]
            /\ UNCHANGED tx
       ELSE /\ tx' = inner
            /\ UNCHANGED inner
    /\ UNCHANGED <<client, pc, beginError, txClient, txPromise, txs,
                   cbCalls, db, calls>>
    /\ UNCHANGED <<retryVars, sampleVars, randVars, pageVars, mutVars>>

TxNext ==
    \/ Begin
    \/ StartTransaction
    \/ \E e \in {"P2034", "P1001"} : StartFails(e)
    \/ BeginReturns
    \/ \E w \in 1..MaxWrites : Write(w)
    \/ Commit
    \/ Rollback
    \/ \E i \in 1..Len(txs) : CallbackSettles(i)
    \/ \E conflict \in BOOLEAN : TransactionFinishes(conflict)
    \/ AttemptResolves
    \/ AttemptFails

\* no $begin call in progress
TxIdle ==
    /\ client = [supported |-> FALSE, wrapped |-> FALSE,
                 options |-> [retry |-> "absent", numOfAttempts |-> 1]]
    /\ pc = "idle"
    /\ beginError = "none"
    /\ txClient = [st |-> "none", val |-> 0]
    /\ txPromise = NoPromise
    /\ tx = NoPromise
    /\ inner = NoPromise
    /\ attemptNumber = 0
    /\ txs = << >>
    /\ cbCalls = 0
    /\ db = {}
    /\ calls = << >>

(***************************************************************************)
(* RetryTransactions.$transaction: backOff(() => prisma.$transaction(...), *)
(* { retry, ...options })                                                  *)
(***************************************************************************)
Outcomes == ErrorCodes \cup {"ok"}

RetryInit ==
    /\ rOptions \in RetryOptions
    /\ rScript \in [1..MaxAttempts -> Outcomes]
    /\ rPc = "ready"
    /\ rExec = 0
    /\ rFailed = 0
    /\ rLast = NoPromise
    /\ rResult = Pending

RetryIdle ==
    /\ rOptions = [retry |-> "absent", numOfAttempts |-> 1]
    /\ rScript = [i \in 1..MaxAttempts |-> "ok"]
    /\ rPc = "idle"
    /\ rExec = 0
    /\ rFailed = 0
    /\ rLast = NoPromise
    /\ rResult = NoPromise

\* () => prisma.$transaction.apply(prisma, args): one execution
RetryExecute ==
    /\ rPc = "ready"
    /\ rExec' = rExec + 1
    /\ rLast' = IF rScript[rExec + 1] = "ok" THEN Resolved("value")
                ELSE Rejected(rScript[rExec + 1])
    /\ rPc' = "executed"
    /\ UNCHANGED <<rOptions, rScript, rFailed, rResult>>
    /\ UNCHANGED <<txVars, sampleVars, randVars, pageVars, mutVars>>

\* backOff: a success is returned; a failure is retried when the merged
\* classifier accepts it and attempts remain, and is rethrown otherwise
RetryDecide ==
    /\ rPc = "executed"
    /\ IF rLast.st = "resolved"
       THEN /\ rResult' = rLast
            /\ rPc' = "done"
            /\ UNCHANGED rFailed
       ELSE /\ rFailed' = rFailed + 1
            /\ IF BackOffRetries(rOptions, rLast.val, rFailed + 1)
               THEN rPc' = "ready" /\ UNCHANGED rResult
               ELSE rPc' = "done" /\ rResult' = rLast
    /\ UNCHANGED <<rOptions, rScript, rExec, rLast>>
    /\ UNCHANGED <<txVars, sampleVars, randVars, pageVars, mutVars>>

RetryNext ==
    \/ RetryExecute
    \/ RetryDecide

(***************************************************************************)
(* findManyRandom                                                          *)
(***************************************************************************)
\* identifiers of the table's rows
MaxRows == 3
\* largest num asked for
MaxNum == 3
\* concurrent inserts and deletes during one call
MaxMutations == 1

Ids == 1..MaxRows
Tags == {"a", "b"}
Rows == [id : Ids, tag : Tags]
Null == [id |-> 0, tag |-> "null"]

Range(q) == {q[i] : i \in 1..Len(q)}

\* where clauses: an optional condition on a field and an optional
\* condition on id ({ in: [...] } or { notIn: [...] })
NoIdFilter == [kind |-> "absent", ids |-> {}]
IdFilters ==
    {NoIdFilter} \cup [kind : {"in"}, ids : SUBSET Ids \ {{}}]
Wheres == [tag : {"any", "a"}, id : IdFilters]

Matches(row, where) ==
    /\ where.tag = "any" \/ row.tag = where.tag
    /\ CASE where.id.kind = "in" -> row.id \in where.id.ids
         [] where.id.kind = "notIn" -> row.id \notin where.id.ids
         [] OTHER -> TRUE

Matching(table, where) == {r \in table : Matches(r, where)}

\* context.count({ where })
Count(table, where) == Cardinality(Matching(table, where))

\* context.findFirst({ where, skip }): the row after skip matches in the
\* order the store chooses for this fetch, or null
FindFirst(table, where, skip) ==
    IF skip < Count(table, where) THEN Matching(table, where) ELSE {Null}

\* if (!row)
NoRowNever(row) == FALSE
NoRow(row) == row = Null

\* where = { ...where, id: { notIn: rowIds } }: rowIds is the live array
AugmentedWhereSnapshot(where, ids) ==
    [where EXCEPT !.id = [kind |-> "notIn", ids |-> {}]]
AugmentedWhere(where, ids) ==
    [where EXCEPT !.id = [kind |-> "notIn", ids |-> Range(ids)]]

\* Math.max(0, Math.floor(Math.random() * numRows))
RandomSkipInclusive(n) == 0..Max(0, n)
RandomSkipCeil(n) == IF n > 0 THEN 1..n ELSE {0}
RandomSkip(n) == {Max(0, f) : f \in IF n > 0 THEN 0..(n - 1) ELSE {0}}

\* tables with one row per identifier
Tables == {t \in SUBSET Rows : \A r1, r2 \in t : r1.id = r2.id => r1 = r2}

SampleInit ==
    /\ store \in Tables
    /\ mutations = 0
    /\ sNum \in -1..MaxNum
    /\ sWhere \in Wheres
    /\ sPc = "call"
    /\ numRows = 0
    /\ rows = << >>
    /\ rowIds = << >>
    /\ sI = 0
    /\ sSkip = 0
    /\ sLogged = FALSE

SampleIdle ==
    /\ store = {}
    /\ mutations = 0
    /\ sNum = 0
    /\ sWhere = [tag |-> "any", id |-> NoIdFilter]
    /\ sPc = "idle"
    /\ numRows = 0
    /\ rows = << >>
    /\ rowIds = << >>
    /\ sI = 0
    /\ sSkip = 0
    /\ sLogged = FALSE

\* let numRows = await context.count({ where }); rows = []; rowIds = []
SampleCount ==
    /\ sPc = "call"
    /\ numRows' = Count(store, sWhere)
    /\ rows' = << >>
    /\ rowIds' = << >>
    /\ sI' = 0
    /\ sPc' = "loop"
    /\ UNCHANGED <<store, mutations, sNum, sWhere, sSkip, sLogged>>
    /\ UNCHANGED <<txVars, retryVars, randVars, pageVars, mutVars>>

\* one iteration of the loop: a findFirst under the augmented where, then
\* either the break or the three pushes
SampleDraw ==
    /\ sPc = "loop"
    /\ sI < sNum /\ numRows > 0
    /\ \E skip \in RandomSkip(numRows) :
       \E row \in FindFirst(store, AugmentedWhere(sWhere, rowIds), skip) :
          /\ sSkip' = skip
          /\ IF NoRow(row)
             THEN /\ sLogged' = TRUE
                  /\ sPc' = "done"
                  /\ UNCHANGED <<rows, rowIds, numRows, sI>>
             ELSE /\ rows' = Append(rows, row)
                  /\ rowIds' = Append(rowIds, row.id)
                  /\ numRows' = numRows - 1
                  /\ sI' = sI + 1
                  /\ UNCHANGED <<sLogged, sPc>>
    /\ UNCHANGED <<store, mutations, sNum, sWhere>>
    /\ UNCHANGED <<txVars, retryVars, randVars, pageVars, mutVars>>

\* the loop condition fails: return rows
SampleReturn ==
    /\ sPc = "loop"
    /\ ~(sI < sNum /\ numRows > 0)
    /\ sPc' = "done"
    /\ UNCHANGED <<store, mutations, sNum, sWhere, numRows, rows, rowIds,
                   sI, sSkip, sLogged>>
    /\ UNCHANGED <<txVars, retryVars, randVars, pageVars, mutVars>>

\* another client inserts a row while the call is suspended
ConcurrentInsert(r) ==
    /\ sPc \in {"loop", "counted"}
    /\ mutations < MaxMutations
    /\ \A q \in store : q.id # r.id
    /\ store' = store \cup {r}
    /\ mutations' = mutations + 1
    /\ UNCHANGED <<sNum, sWhere, sPc, numRows, rows, rowIds, sI, sSkip,
                   sLogged>>
    /\ UNCHANGED <<txVars, retryVars, randVars, pageVars, mutVars>>

\* another client deletes a row while the call is suspended
ConcurrentDelete(r) ==
    /\ sPc \in {"loop", "counted"}
    /\ mutations < MaxMutations
    /\ r \in store
    /\ store' = store \ {r}
    /\ mutations' = mutations + 1
    /\ UNCHANGED <<sNum, sWhere, sPc, numRows, rows, rowIds, sI, sSkip,
                   sLogged>>
    /\ UNCHANGED <<txVars, retryVars, randVars, pageVars, mutVars>>

SampleNext ==
    \/ SampleCount
    \/ SampleDraw
    \/ SampleReturn
    \/ \E r \in Rows : ConcurrentInsert(r)
    \/ \E r \in Rows : ConcurrentDelete(r)

(***************************************************************************)
(* findRandom                                                              *)
(***************************************************************************)
NotCalled == [id |-> -1, tag |-> "none"]

RandIdle == fRow = NotCalled

RandInit ==
    /\ store \in Tables
    /\ mutations = 0
    /\ sNum = 1
    /\ sWhere \in Wheres
    /\ sPc = "call"
    /\ numRows = 0
    /\ rows = << >>
    /\ rowIds = << >>
    /\ sI = 0
    /\ sSkip = 0
    /\ sLogged = FALSE
    /\ fRow = NotCalled

\* const numRows = await context.count({ where: args?.where })
FindRandomCount ==
    /\ sPc = "call"
    /\ numRows' = Count(store, sWhere)
    /\ sPc' = "counted"
    /\ UNCHANGED <<store, mutations, sNum, sWhere, rows, rowIds, sI, sSkip,
                   sLogged, fRow>>
    /\ UNCHANGED <<txVars, retryVars, pageVars, mutVars>>

\* return await context.findFirst({ ...args, skip: Math.max(0, ...) })
FindRandomFetch ==
    /\ sPc = "counted"
    /\ \E skip \in RandomSkip(numRows) :
       \E row \in FindFirst(store, sWhere, skip) :
          /\ sSkip' = skip
          /\ fRow' = row
    /\ sPc' = "done"
    /\ UNCHANGED <<store, mutations, sNum, sWhere, numRows, rows, rowIds, sI,
                   sLogged>>
    /\ UNCHANGED <<txVars, retryVars, pageVars, mutVars>>

RandNext ==
    \/ FindRandomCount
    \/ FindRandomFetch
    \/ \E r \in Rows : ConcurrentInsert(r)
    \/ \E r \in Rows : ConcurrentDelete(r)

(***************************************************************************)
(* paginate                                                                *)
(***************************************************************************)
\* largest take / skip a caller gives
MaxWindow == 2

\* ?? 10 and ?? 0
DefaultTake == 10
DefaultSkip == 0

\* an optional number: absent (undefined) or given
Absent == [has |-> FALSE, v |-> 0]
Given(n) == [has |-> TRUE, v |-> n]
OptNumbers == {Absent} \cup {Given(n) : n \in -1..MaxWindow}

\* the pagination argument: absent, or { take?, skip? }
NoPagination == [has |-> FALSE, take |-> Absent, skip |-> Absent]
Paginations ==
    {NoPagination} \cup [has : {TRUE}, take : OptNumbers, skip : OptNumbers]

\* the args of a paginate call: a findMany query plus pagination
PageArgs ==
    [where : [tag : {"any", "a"}, id : {NoIdFilter}],
     take : OptNumbers, skip : OptNumbers, pagination : Paginations]

\* "pack": the paginate of the full extension (and of its copy without
\* $begin); "index": the paginate of src/index.ts
Variants == {"pack", "index"}

\* const { pagination, ...operationArgs } = args ?? {}
OperationArgsKeepPagination(args) == args
OperationArgs(args) == [args EXCEPT !.pagination = NoPagination]

\* a ?? b
Nullish(a, b) == IF a.has THEN a ELSE b

\* const take = args?.pagination?.take ?? operationArgs?.take ?? 10
\* (src/index.ts: args?.pagination?.take ?? 10)
ResolveTakeNegativeDefault(variant, args) ==
    Nullish(args.pagination.take, Given(-1)).v
ResolveTake(variant, args) ==
    IF variant = "pack"
    THEN Nullish(args.pagination.take,
                 Nullish(OperationArgs(args).take, Given(DefaultTake))).v
    ELSE Nullish(args.pagination.take, Given(DefaultTake)).v

\* const skip = args?.pagination?.skip ?? operationArgs?.skip ?? 0
\* (src/index.ts: args?.pagination?.skip ?? 0)
ResolveSkip(variant, args) ==
    IF variant = "pack"
    THEN Nullish(args.pagination.skip,
                 Nullish(OperationArgs(args).skip, Given(DefaultSkip))).v
    ELSE Nullish(args.pagination.skip, Given(DefaultSkip)).v

\* { ...operationArgs, skip, take }
FindManyArgs(variant, args) ==
    [OperationArgs(args) EXCEPT !.take = Given(ResolveTake(variant, args)),
                                !.skip = Given(ResolveSkip(variant, args))]

\* { where: operationArgs?.where }
CountArgs(args) == [where |-> OperationArgs(args).where]

Abs(n) == IF n < 0 THEN -n ELSE n

\* context.findMany: a negative skip is refused; otherwise the rows of the
\* window, |take| of them at most, in the order the store chooses
FindMany(table, q) ==
    IF q.skip.has /\ q.skip.v < 0
    THEN {[err |-> "validation", data |-> {}]}
    ELSE LET matching == Matching(table, q.where)
             left == Max(0, Cardinality(matching) - (IF q.skip.has THEN q.skip.v ELSE 0))
             size == IF q.take.has THEN Min(Abs(q.take.v), left) ELSE left
         IN {[err |-> "none", data |-> d] :
                d \in {x \in SUBSET matching : Cardinality(x) = size}}

NoAnswer == [err |-> "pending", data |-> {}]

PageIdle ==
    /\ pVariant = "pack"
    /\ pArgs = [where |-> [tag |-> "any", id |-> NoIdFilter],
                take |-> Absent, skip |-> Absent, pagination |-> NoPagination]
    /\ pPc = "idle"
    /\ pFindMany = pArgs
    /\ pCount = [where |-> pArgs.where]
    /\ pData = NoAnswer
    /\ pTotal = -1
    /\ pResult = [st |-> "none", data |-> {}, total |-> -1]

PageInit ==
    /\ pVariant \in Variants
    /\ pArgs \in PageArgs
    /\ pPc = "call"
    /\ pFindMany = pArgs
    /\ pCount = [where |-> pArgs.where]
    /\ pData = NoAnswer
    /\ pTotal = -1
    /\ pResult = [st |-> "none", data |-> {}, total |-> -1]
    /\ store \in Tables
    /\ mutations = 0
    /\ sNum = 0
    /\ sWhere = [tag |-> "any", id |-> NoIdFilter]
    /\ sPc = "idle"
    /\ numRows = 0
    /\ rows = << >>
    /\ rowIds = << >>
    /\ sI = 0
    /\ sSkip = 0
    /\ sLogged = FALSE

\* paginate up to its await: both queries are issued
PaginateCall ==
    /\ pPc = "call"
    /\ pFindMany' = FindManyArgs(pVariant, pArgs)
    /\ pCount' = CountArgs(pArgs)
    /\ pPc' = "awaiting"
    /\ UNCHANGED <<pVariant, pArgs, pData, pTotal, pResult>>
    /\ UNCHANGED <<txVars, retryVars, sampleVars, randVars, mutVars>>

\* findMany answers
FindManyAnswers ==
    /\ pPc = "awaiting"
    /\ pData = NoAnswer
    /\ pData' \in FindMany(store, pFindMany)
    /\ UNCHANGED <<pVariant, pArgs, pPc, pFindMany, pCount, pTotal, pResult>>
    /\ UNCHANGED <<txVars, retryVars, sampleVars, randVars, mutVars>>

\* count answers
CountAnswers ==
    /\ pPc = "awaiting"
    /\ pTotal = -1
    /\ pTotal' = Count(store, pCount.where)
    /\ UNCHANGED <<pVariant, pArgs, pPc, pFindMany, pCount, pData, pResult>>
    /\ UNCHANGED <<txVars, retryVars, sampleVars, randVars, mutVars>>

\* await Promise.all([...]); return { data, total }
PaginateReturns ==
    /\ pPc = "awaiting"
    /\ \/ /\ pData.err = "none" /\ pTotal # -1
          /\ pResult' = [st |-> "resolved", data |-> pData.data,
                         total |-> pTotal]
       \/ /\ pData.err = "validation"
          /\ pResult' = [st |-> "rejected", data |-> {}, total |-> -1]
    /\ pPc' = "done"
    /\ UNCHANGED <<pVariant, pArgs, pFindMany, pCount, pData, pTotal>>
    /\ UNCHANGED <<txVars, retryVars, sampleVars, randVars, mutVars>>

PageNext ==
    \/ PaginateCall
    \/ FindManyAnswers
    \/ CountAnswers
    \/ PaginateReturns

(***************************************************************************)
(* updateIgnoreOnNotFound / deleteIgnoreOnNotFound                         *)
(***************************************************************************)
\* a settled call: a record, null, or an error
Returned(row) == [st |-> "resolved", row |-> row, err |-> "none"]
Thrown(e) == [st |-> "rejected", row |-> Null, err |-> e]
Unsettled == [st |-> "pending", row |-> Null, err |-> "none"]

\* err?.code === "P2025"
IsNotFoundAny(e) == TRUE
IsNotFound(e) == e = "P2025"

\* catch (err) { if (err?.code === "P2025") return null; throw err; }
OnFailure(e) == IF IsNotFound(e) THEN Returned(Null) ELSE Thrown(e)

\* context.update(args) / context.delete(args): the table afterwards and
\* the answer; a missing target fails with P2025 and changes nothing
Mutate(table, op, args, fault) ==
    LET target == {r \in table : r.id = args.id}
        new == [id |-> args.id, tag |-> args.tag]
    IN CASE fault # "none" -> [table |-> table, answer |-> Thrown(fault)]
         [] target = {} -> [table |-> table, answer |-> Thrown("P2025")]
         [] op = "update" ->
               [table |-> (table \ target) \cup {new}, answer |-> Returned(new)]
         [] OTHER ->
               [table |-> table \ target,
                answer |-> Returned(CHOOSE r \in target : TRUE)]

MutIdle ==
    /\ mOp = "update"
    /\ mArgs = [id |-> 1, tag |-> "a"]
    /\ mFault = "none"
    /\ mStore0 = {}
    /\ mPc = "idle"
    /\ mCalls = 0
    /\ mAnswer = Unsettled
    /\ mResult = Unsettled

MutInit ==
    /\ mOp \in {"update", "delete"}
    /\ mArgs \in Rows
    /\ mFault \in {"none"} \cup ErrorCodes
    /\ mPc = "call"
    /\ mCalls = 0
    /\ mAnswer = Unsettled
    /\ mResult = Unsettled
    /\ store \in Tables
    /\ mStore0 = store
    /\ mutations = 0
    /\ sNum = 0
    /\ sWhere = [tag |-> "any", id |-> NoIdFilter]
    /\ sPc = "idle"
    /\ numRows = 0
    /\ rows = << >>
    /\ rowIds = << >>
    /\ sI = 0
    /\ sSkip = 0
    /\ sLogged = FALSE

\* try { return await context.update(args) }: the underlying mutation runs
MutationCall ==
    /\ mPc = "call"
    /\ LET out == Mutate(store, mOp, mArgs, mFault) IN
        /\ store' = out.table
        /\ mAnswer' = out.answer
    /\ mCalls' = mCalls + 1
    /\ mPc' = "awaiting"
    /\ UNCHANGED <<mOp, mArgs, mFault, mStore0, mResult>>
    /\ UNCHANGED <<mutations, sNum, sWhere, sPc, numRows, rows, rowIds, sI,
                   sSkip, sLogged>>
    /\ UNCHANGED <<txVars, retryVars, randVars, pageVars>>

\* the await settles: the record is returned, or the catch block runs
MutationReturns ==
    /\ mPc = "awaiting"
    /\ mResult' = IF mAnswer.st = "resolved" THEN mAnswer
                  ELSE OnFailure(mAnswer.err)
    /\ mPc' = "done"
    /\ UNCHANGED <<mOp, mArgs, mFault, mStore0, mCalls, mAnswer>>
    /\ UNCHANGED <<txVars, retryVars, sampleVars, randVars, pageVars>>

MutNext ==
    \/ MutationCall
    \/ MutationReturns

(***************************************************************************)
(* Specifications                                                          *)
(***************************************************************************)
Init == TxInit /\ RetryIdle /\ SampleIdle /\ RandIdle /\ PageIdle /\ MutIdle
Next == TxNext
Spec == Init /\ [][Next]_vars

InitRetry == RetryInit /\ TxIdle /\ SampleIdle /\ RandIdle /\ PageIdle /\ MutIdle
SpecRetry == InitRetry /\ [][RetryNext]_vars

InitSample == SampleInit /\ TxIdle /\ RetryIdle /\ RandIdle /\ PageIdle /\ MutIdle
SpecSample == InitSample /\ [][SampleNext]_vars

InitRand == RandInit /\ TxIdle /\ RetryIdle /\ PageIdle /\ MutIdle
SpecRand == InitRand /\ [][RandNext]_vars

InitPage == PageInit /\ TxIdle /\ RetryIdle /\ RandIdle /\ MutIdle
SpecPage == InitPage /\ [][PageNext]_vars

\* backOff keeps running its loop until it returns or throws
SpecRetryFair == SpecRetry /\ WF_vars(RetryNext)

InitMut == MutInit /\ TxIdle /\ RetryIdle /\ RandIdle /\ PageIdle
SpecMut == InitMut /\ [][MutNext]_vars

(***************************************************************************)
(* Properties of the transaction controller                                *)
(***************************************************************************)
\* the first $commit / $rollback call made on the handle
FirstCall == IF calls = << >> THEN "none" ELSE calls[1].op

\* the writes made through the handle (the proxy's target is the first
\* transaction client published)
HandleWrites ==
    IF txClient.st = "resolved" THEN txs[txClient.val].writes ELSE {}

\* C1: after begin() and rollback(), once the promise rollback() returned
\* has settled, no write made through the handle is visible.
C1_RollbackDiscardsWrites ==
    (FirstCall = "rollback" /\ Settled(tx)) => db \cap HandleWrites = {}

\* C2: after begin() and commit(), the callback's future never fails, the
\* promise commit() returned resolves only when the transaction the handle
\* wrote to has committed with all its writes visible, and it settles only
\* once no underlying transaction is still open.
C2_CommitMakesWritesVisible ==
    FirstCall = "commit" =>
        /\ \A i \in 1..Len(txs) : txs[i].cb.st # "rejected"
        /\ tx.st = "resolved" =>
              /\ txs[txClient.val].st = "committed"
              /\ HandleWrites \subseteq db
        /\ Settled(tx) => \A i \in 1..Len(txs) : txs[i].st # "open"

\* C3: the rollback sentinel never reaches the caller: neither begin() nor
\* the promise returned by commit() / rollback() fails with it.
C3_SentinelNeverSurfaces ==
    /\ beginError # ROLLBACK
    /\ ~(tx.st = "rejected" /\ tx.val = ROLLBACK)

C3_Witness ==
    /\ FirstCall = "rollback"
    /\ txPromise = Rejected(ROLLBACK)
    /\ tx.st = "resolved"

\* C4: a begin() that returned a handle has had its callback invoked
\* exactly once and has opened exactly one underlying transaction.
C4_OneTransactionPerBegin ==
    pc = "returned" => (cbCalls = 1 /\ Len(txs) = 1)

\* C5: while begin() has returned a handle and neither commit() nor
\* rollback() has been called, the callback's future is unsettled, the
\* transaction is open and the promise of the scope is pending.
C5_OpenUntilDecided ==
    (pc = "returned" /\ calls = << >>) =>
        /\ tx.st = "pending"
        /\ \A i \in 1..Len(txs) :
              txs[i].cb.st = "pending" /\ txs[i].st = "open"

C5_Witness ==
    /\ pc = "returned"
    /\ calls = << >>
    /\ HandleWrites = 1..MaxWrites

\* C15: the first commit() or rollback() call fixes the decision: whatever
\* calls follow, in any order, the decision promise keeps the outcome of
\* the first call, and every call returns the same promise tx.
C15_FirstDecisionStands ==
    calls # << >> =>
        /\ txPromise = IF calls[1].op = "commit" THEN Resolved("undefined")
                       ELSE Rejected(ROLLBACK)
        /\ \A i \in 1..Len(calls) : calls[i].returned = calls[1].returned

C15_Witness ==
    /\ Len(calls) >= 2
    /\ calls[1].op = "commit"
    /\ calls[2].op = "rollback"
    /\ txPromise = Resolved("undefined")
    /\ tx.st = "resolved"

\* C20: begin() settles when the underlying primitive does: once nothing
\* more can happen, a begin() whose callback was invoked has returned a
\* handle, and a begin() whose primitive failed without invoking the
\* callback has failed with that error.
C20_BeginSettles ==
    (pc # "init" /\ ~ENABLED Next) =>
        /\ cbCalls > 0 => pc = "returned"
        /\ (cbCalls = 0 /\ tx.st = "rejected") =>
              (pc = "threw" /\ beginError = tx.val)

\* C6 as stated: on a client without scoped transactions begin() fails
\* with the unsupported error, opens no transaction, and no coordination
\* promise exists yet.
C6_FailsBeforePrimitives ==
    (~client.supported /\ pc # "init") =>
        /\ pc = "threw"
        /\ beginError = UnsupportedMessage
        /\ txs = << >> /\ cbCalls = 0 /\ tx.st = "none"
        /\ txClient.st = "none"
        /\ txPromise.st = "none"

\* C6 amended: on a client without scoped transactions begin() fails with
\* the unsupported error and opens no transaction; both coordination
\* promises have been created by then and are never settled.
C6_FailsWithoutTransaction ==
    /\ (~client.supported /\ pc # "init") =>
          /\ pc = "threw"
          /\ beginError = UnsupportedMessage
          /\ txs = << >> /\ cbCalls = 0 /\ tx.st = "none"
          /\ txClient.st = "pending"
          /\ txPromise.st = "pending"
    /\ pc = "threw" => ~client.supported

C6_Witness == pc = "threw" /\ beginError = UnsupportedMessage

(***************************************************************************)
(* Properties of the retry adapter                                         *)
(***************************************************************************)
\* C7: with the default classifier every re-execution follows a P2034
\* failure, and any other failure ends the call after that one attempt
\* with the same error.
C7_DefaultRetriesOnlyP2034 ==
    rOptions.retry = "absent" =>
        /\ \A i \in 1..(rExec - 1) : rScript[i] = "P2034"
        /\ (rExec >= 1 /\ rScript[1] \notin {"ok", "P2034"}) =>
              /\ rExec = 1
              /\ rPc = "done" => rResult = Rejected(rScript[1])
        /\ (rPc = "done" /\ rScript[rExec] \notin {"ok", "P2034"}) =>
              rResult = Rejected(rScript[rExec])

C7_Witness ==
    /\ rOptions.retry = "absent"
    /\ rPc = "done"
    /\ rExec = 2
    /\ rScript[1] = "P2034"
    /\ rResult = Rejected("P2002")

\* the caller's classifier (or, without one, the default) accepts e
C8_Eligible(e) ==
    \/ rOptions.retry = "always"
    \/ rOptions.retry = "absent" /\ e = "P2034"

\* C8: an operation that fails k times with retry-eligible errors and then
\* succeeds, k below numOfAttempts, completes with that result after
\* exactly k+1 executions; with a classifier that never accepts, the
\* operation is executed exactly once.
C8_AttemptsUntilSuccess ==
    /\ \A k \in 0..(MaxAttempts - 1) :
          ( /\ k < rOptions.numOfAttempts
            /\ \A i \in 1..k : rScript[i] # "ok" /\ C8_Eligible(rScript[i])
            /\ rScript[k + 1] = "ok" ) =>
              /\ rExec <= k + 1
              /\ rPc = "done" => (rExec = k + 1 /\ rResult = Resolved("value"))
    /\ rOptions.retry = "never" =>
          /\ rExec <= 1
          /\ rPc = "done" => rExec = 1

C8_Witness ==
    /\ rOptions.retry = "always"
    /\ rScript[1] = "P2002" /\ rScript[2] = "nocode" /\ rScript[3] = "ok"
    /\ rPc = "done"
    /\ rExec = 3
    /\ rResult = Resolved("value")

\* C16: the wrapped $transaction is executed at most numOfAttempts times
\* and the call always ends; a call that fails ends with the error of its
\* last execution, and when every execution fails with an error the
\* classifier accepts, that is after exactly numOfAttempts executions.
C16_RetryTerminates ==
    /\ [](/\ rExec <= rOptions.numOfAttempts
          /\ (rPc = "done" /\ rResult.st = "rejected") =>
                rResult = Rejected(rScript[rExec])
          /\ ( /\ rPc = "done"
               /\ \A i \in 1..rOptions.numOfAttempts :
                     rScript[i] # "ok" /\ C8_Eligible(rScript[i]) ) =>
                (rExec = rOptions.numOfAttempts /\ rResult.st = "rejected"))
    /\ <>(rPc = "done")

C16_Witness ==
    /\ rOptions = [retry |-> "always", numOfAttempts |-> 2]
    /\ rScript[1] = "P2034" /\ rScript[2] = "P2002"
    /\ rPc = "done"
    /\ rExec = 2
    /\ rResult = Rejected("P2002")

(***************************************************************************)
(* Properties of findManyRandom                                            *)
(***************************************************************************)
\* C9: on a population that is not mutated during the call, the call
\* returns exactly min(P, num) rows (none when P = 0 or num <= 0) with
\* pairwise distinct identifiers, without an error being logged.
C9_ReturnsMinDistinct ==
    (sPc = "done" /\ mutations = 0) =>
        /\ Len(rows) = Min(Count(store, sWhere), Max(sNum, 0))
        /\ \A i, j \in 1..Len(rows) : rows[i].id = rows[j].id => i = j
        /\ ~sLogged

C9_Witness ==
    /\ sPc = "done" /\ mutations = 0
    /\ sNum = 2
    /\ Count(store, sWhere) = 3
    /\ Len(rows) = 2

\* C10: every row the call has collected matches the caller's where.
C10_RowsMatchFilter ==
    \A i \in 1..Len(rows) : Matches(rows[i], sWhere)

\* C17: in every step of a findManyRandom call the exclusion list only
\* grows and holds the identifiers of the rows collected, the counter goes
\* down by exactly one with each row collected and is never negative, and
\* the skip of every fetch is in [0, numRows - 1] for the counter at that
\* draw.
C17_DrawInvariants ==
    [][ sPc = "loop" =>
          /\ Len(rowIds') >= Len(rowIds)
          /\ SubSeq(rowIds', 1, Len(rowIds)) = rowIds
          /\ rowIds' = [i \in 1..Len(rows') |-> rows'[i].id]
          /\ numRows' = numRows - (Len(rows') - Len(rows))
          /\ Len(rows') - Len(rows) \in {0, 1}
          /\ numRows' >= 0
          /\ (rows' # rows \/ sLogged' # sLogged) =>
                sSkip' \in 0..(numRows - 1) ]_vars

C17_Witness ==
    /\ sPc = "loop"
    /\ Len(rows) = 2
    /\ rowIds = <<rows[1].id, rows[2].id>>
    /\ numRows = 1
    /\ sSkip = 1

\* C18: whatever inserts and deletes interleave with the draws and whatever
\* order the store picks, the call collects at most num rows, never the
\* same identifier twice and never a missing row, and the first draw that
\* finds no row ends the call with the rows collected before it.
C18_BestEffortUnderMutation ==
    /\ Len(rows) <= Max(sNum, 0)
    /\ \A i, j \in 1..Len(rows) : rows[i].id = rows[j].id => i = j
    /\ \A i \in 1..Len(rows) : rows[i] # Null
    /\ sLogged => sPc = "done"

C18_Witness ==
    /\ mutations > 0
    /\ sLogged
    /\ sPc = "done"
    /\ Len(rows) = 1
    /\ sNum >= 2

(***************************************************************************)
(* Properties of findRandom                                                *)
(***************************************************************************)
\* C11: findRandom returns null when no row matches the filter; on a
\* non-empty population that is not mutated during the call the skip it
\* passes is in [0, count-1] and it returns a row that matches the filter.
C11_FindRandomRow ==
    (sPc = "done" /\ mutations = 0) =>
        IF Count(store, sWhere) = 0
        THEN fRow = Null
        ELSE /\ sSkip \in 0..(Count(store, sWhere) - 1)
             /\ fRow \in store
             /\ Matches(fRow, sWhere)

C11_Witness ==
    /\ sPc = "done" /\ mutations = 0
    /\ Count(store, sWhere) = 2
    /\ sSkip = 1
    /\ fRow \in store

(***************************************************************************)
(* Properties of paginate                                                  *)
(***************************************************************************)
\* explicit pagination value, else the base query's, else the default
C12_Precedence(explicit, base, default) ==
    IF explicit.has THEN explicit.v ELSE IF base.has THEN base.v ELSE default

\* C12: the take and the skip handed to findMany are, each on its own, the
\* value of the pagination argument, else the same-named field of the base
\* query, else the default (10, 0).
C12_WindowPrecedence ==
    pPc \in {"awaiting", "done"} =>
        /\ pFindMany.take =
              Given(C12_Precedence(pArgs.pagination.take, pArgs.take, 10))
        /\ pFindMany.skip =
              Given(C12_Precedence(pArgs.pagination.skip, pArgs.skip, 0))

\* C13: on an unmutated population of P matching rows, with a window that
\* is not negative, paginate returns total = P whatever the window, and
\* data of min(take, max(0, P - skip)) matching rows; neither findMany nor
\* count is handed the pagination argument.
C13_PageAndTotal ==
    /\ pPc \in {"awaiting", "done"} =>
          /\ ~pFindMany.pagination.has
          /\ DOMAIN pCount = {"where"}
          /\ pCount.where = pArgs.where
          /\ pFindMany.where = pArgs.where
    /\ (pPc = "done" /\ pResult.st = "resolved") =>
          LET P == Count(store, pArgs.where)
              pg == pArgs.pagination
          IN /\ pResult.total = P
             /\ pResult.data \subseteq Matching(store, pArgs.where)
             /\ (pFindMany.take.v >= 0 /\ pFindMany.skip.v >= 0) =>
                   Cardinality(pResult.data) =
                      Min(pFindMany.take.v, Max(0, P - pFindMany.skip.v))
             /\ (pg.take.has /\ pg.skip.has /\ pg.take.v >= 0
                                             /\ pg.skip.v >= 0) =>
                   Cardinality(pResult.data) =
                      Min(pg.take.v, Max(0, P - pg.skip.v))

C13_Witness ==
    /\ pPc = "done" /\ pResult.st = "resolved"
    /\ pArgs.pagination.take = Given(2) /\ pArgs.pagination.skip = Given(2)
    /\ pArgs.take = Given(0)
    /\ pResult.total = 3
    /\ Cardinality(pResult.data) = 1

\* C19 as stated: the take and skip handed to findMany are never negative.
C19_WindowClamped ==
    pPc \in {"awaiting", "done"} =>
        (pFindMany.take.v >= 0 /\ pFindMany.skip.v >= 0)

\* the values the caller gave for one field of the window
C19_GivenValues(explicit, base) ==
    {o.v : o \in {x \in {explicit, base} : x.has}}

\* C19 amended: paginate does not clamp. A take or skip given in the
\* pagination argument is handed to findMany as it is, negative or not;
\* otherwise the value handed over is one the caller gave in the base query
\* or the default; so the window is non-negative whenever every take and
\* skip the caller gave is.
C19_WindowPassedThrough ==
    pPc \in {"awaiting", "done"} =>
        LET pg == pArgs.pagination
            takes == C19_GivenValues(pg.take, pArgs.take)
            skips == C19_GivenValues(pg.skip, pArgs.skip)
        IN /\ pg.take.has => pFindMany.take = pg.take
           /\ pg.skip.has => pFindMany.skip = pg.skip
           /\ pFindMany.take.has /\ pFindMany.take.v \in takes \cup {10}
           /\ pFindMany.skip.has /\ pFindMany.skip.v \in skips \cup {0}
           /\ (\A n \in takes \cup skips : n >= 0) =>
                 (pFindMany.take.v >= 0 /\ pFindMany.skip.v >= 0)

C19_Witness ==
    /\ pPc = "done"
    /\ pArgs.pagination.take = Given(-1)
    /\ pFindMany.take = Given(-1)
    /\ pResult.st = "resolved"

(***************************************************************************)
(* Properties of the not-found-tolerant wrappers                           *)
(***************************************************************************)
\* C14: the wrapper invokes the underlying mutation exactly once; it
\* returns the mutated record when the mutation succeeds, null when it
\* fails with P2025 (the table is then unchanged), and rethrows the same
\* error for every other failure.
C14_IgnoreOnlyNotFound ==
    /\ mCalls <= 1
    /\ mPc = "done" =>
          /\ mCalls = 1
          /\ mAnswer.st = "resolved" =>
                /\ mResult = mAnswer
                /\ mResult.row.id = mArgs.id
                /\ mResult.row \in (IF mOp = "update" THEN store ELSE mStore0)
          /\ (mAnswer.st = "rejected" /\ mAnswer.err = "P2025") =>
                (mResult = Returned(Null) /\ store = mStore0)
          /\ (mAnswer.st = "rejected" /\ mAnswer.err # "P2025") =>
                mResult = Thrown(mAnswer.err)

C14_Witness ==
    /\ mPc = "done"
    /\ mOp = "update"
    /\ mFault = "none"
    /\ \A r \in mStore0 : r.id # mArgs.id
    /\ mStore0 # {}
    /\ mResult = Returned(Null)

====
